---- MODULE Spec2Model ----
(***************************************************************************)
(* State-machine model of the marketing-report analyzer (React component   *)
(* App).  Three variants of the component exist in the sources:            *)
(*   "content"  - src/index.tsx lines 1-231   (shape B, file bytes sent)   *)
(*   "insights" - src/index.tsx lines 232-413 (shape A, file name only)    *)
(*   "filename" - src/unnamed/part_000        (shape B, file name only)    *)
(* The variant and the API credential are fixed for a run (chosen in Init).*)
(***************************************************************************)
EXTENDS Integers, Sequences, FiniteSets, TLC

VARIABLES variant, apiKey, inputFile, selectedFile, analysisResult, isLoading,
          error, pending, attempts, remoteCalls, lastEvent

vars == <<variant, apiKey, inputFile, selectedFile, analysisResult, isLoading,
          error, pending, attempts, remoteCalls, lastEvent>>

\* ---------------------------------------------------------------- bounds
\* Analysis attempts started in one run.
MaxAttempts == 2

\* ------------------------------------------------------------- the files
Variants == {"content", "insights", "filename"}

allowedTypes == {"application/pdf", "text/csv", "application/vnd.ms-excel",
                 "application/vnd.openxmlformats-officedocument.spreadsheetml.sheet"}

\* File objects the user can pick: a name (sequence of characters) and the
\* MIME type the browser declares for it.
FileTable == <<
  [name |-> <<"r", ".", "p", "d", "f">>,      type |-> "application/pdf"],
  [name |-> <<"r", ".", "p", "d", "f">>,      type |-> ""],
  [name |-> <<"d", ".", "c", "s", "v">>,      type |-> ""],
  [name |-> <<"s", ".", "x", "l", "s">>,      type |-> "application/octet-stream"],
  [name |-> <<"s", ".", "x", "l", "s", "x">>, type |-> ""],
  [name |-> <<"n", ".", "t", "x", "t">>,      type |-> "text/plain"],
  [name |-> <<"x", ".", "d", "a", "t">>,      type |-> "text/csv"],
  [name |-> <<"D", ".", "C", "S", "V">>,      type |-> ""],
  [name |-> <<"a", "c", "s", "v">>,           type |-> ""],
  [name |-> <<"a", ".", "c", "s", "v", ".", "t">>, type |-> ""],
  [name |-> <<"b", "o", "o", "k">>,
   type |-> "application/vnd.openxmlformats-officedocument.spreadsheetml.sheet"],
  [name |-> <<"o", "l", "d">>,                type |-> "application/vnd.ms-excel"]
>>

Files == DOMAIN FileTable
NoFile == 0

\* String.prototype.endsWith
endsWith(s, suffix) ==
  /\ Len(s) >= Len(suffix)
  /\ SubSeq(s, Len(s) - Len(suffix) + 1, Len(s)) = suffix

\* Variation of IsAllowedFile: the .pdf extension accepted as a fallback too.
IsAllowedFileWithPdfExtension(f) ==
  \/ FileTable[f].type \in allowedTypes
  \/ endsWith(FileTable[f].name, <<".", "p", "d", "f">>)
  \/ endsWith(FileTable[f].name, <<".", "c", "s", "v">>)
  \/ endsWith(FileTable[f].name, <<".", "x", "l", "s">>)
  \/ endsWith(FileTable[f].name, <<".", "x", "l", "s", "x">>)

\* The acceptance condition of handleFileChange.
IsAllowedFile(f) ==
  \/ FileTable[f].type \in allowedTypes
  \/ endsWith(FileTable[f].name, <<".", "c", "s", "v">>)
  \/ endsWith(FileTable[f].name, <<".", "x", "l", "s">>)
  \/ endsWith(FileTable[f].name, <<".", "x", "l", "s", "x">>)

\* ---------------------------------------------------------- JSON values
\* A JSON member is abstracted to its kind:
\*   "absent" (undefined), "null", "true", "false", "arr0" ([]),
\*   "arr1" (non-empty array of strings), "str0" (""), "str1" (non-empty string)
NoAnalysis == [k |-> "absent", conclusions |-> "absent", suggestions |-> "absent",
               risks |-> "absent", criticalErrors |-> "absent"]
FullAnalysis == [k |-> "obj", conclusions |-> "arr1", suggestions |-> "arr1",
                 risks |-> "arr0", criticalErrors |-> "arr1"]
PartialAnalysis == [k |-> "obj", conclusions |-> "arr1", suggestions |-> "absent",
                    risks |-> "arr1", criticalErrors |-> "arr1"]

Obj(ins, rec, imd, an, rea) ==
  [t |-> "obj", insights |-> ins, recommendations |-> rec,
   isMarketingData |-> imd, analysis |-> an, reasoning |-> rea]

\* JavaScript null: the initial analysisResult, and JSON.parse("null").
Null == [t |-> "null", insights |-> "absent", recommendations |-> "absent",
         isMarketingData |-> "absent", analysis |-> NoAnalysis, reasoning |-> "absent"]

\* The JSON documents the remote model can answer with, by token.
Docs == [
  aFull          |-> Obj("arr1", "arr1", "absent", NoAnalysis, "absent"),
  aEmpty         |-> Obj("arr0", "arr0", "absent", NoAnalysis, "absent"),
  aNoInsights    |-> Obj("absent", "arr1", "absent", NoAnalysis, "absent"),
  aStrInsights   |-> Obj("str1", "arr1", "absent", NoAnalysis, "absent"),
  bMarketing     |-> Obj("absent", "absent", "true", FullAnalysis, "absent"),
  bNonMarketing  |-> Obj("absent", "absent", "false", NoAnalysis, "str1"),
  bTrueBare      |-> Obj("absent", "absent", "true", NoAnalysis, "absent"),
  bTrueReasoning |-> Obj("absent", "absent", "true", NoAnalysis, "str1"),
  bFalseBare     |-> Obj("absent", "absent", "false", NoAnalysis, "absent"),
  bFalseAnalysis |-> Obj("absent", "absent", "false", FullAnalysis, "absent"),
  bPartial       |-> Obj("absent", "absent", "true", PartialAnalysis, "absent"),
  bBoth          |-> Obj("absent", "absent", "true", FullAnalysis, "str1"),
  jsonNull       |-> Null
]
DocTokens == DOMAIN Docs

\* ------------------------------------------------- response text, parsing
\* A response text is a sequence of tokens: white space " " and "\n", the
\* markdown fence (three backticks, written "~~~" here), the tag "json",
\* other prose "junk", and a token of DocTokens standing for the
\* serialisation of that JSON document.
WhiteSpace == {" ", "\n"}

RECURSIVE trimStart(_)
trimStart(s) ==
  IF s # <<>> /\ Head(s) \in WhiteSpace THEN trimStart(Tail(s)) ELSE s

RECURSIVE trimEnd(_)
trimEnd(s) ==
  IF s # <<>> /\ s[Len(s)] \in WhiteSpace
  THEN trimEnd(SubSeq(s, 1, Len(s) - 1)) ELSE s

\* String.prototype.trim
trim(s) == trimEnd(trimStart(s))

\* JSON.parse: white space around one JSON value is allowed, anything else
\* is a SyntaxError.
JSONparse(s) ==
  LET body == trimEnd(trimStart(s)) IN
  IF Len(body) = 1 /\ body[1] \in DocTokens
  THEN [ok |-> TRUE, value |-> Docs[body[1]]]
  ELSE [ok |-> FALSE, value |-> Null]

Plain(d)       == <<d>>
Padded(d)      == <<" ", d, "\n">>
FencedJson(d)  == <<"~~~", "json", "\n", d, "\n", "~~~">>
FencedPlain(d) == <<"~~~", "\n", d, "\n", "~~~">>

\* What generateContent can resolve with: response.text is a string, or
\* undefined (a response without text parts).
Responses ==
  {[hasText |-> TRUE, text |-> t] :
     t \in {Plain(d) : d \in DocTokens} \cup {Padded(d) : d \in DocTokens}
           \cup {FencedJson(d) : d \in DocTokens}
           \cup {FencedPlain(d) : d \in DocTokens}
           \cup {<<>>, <<"junk">>, <<"junk", "aFull">>}}
  \cup {[hasText |-> FALSE, text |-> <<>>]}

\* What generateContent can reject with: an Error, or some other value.
Rejections == {[isError |-> TRUE, message |-> "network"],
               [isError |-> FALSE, message |-> "not-an-Error"]}

\* ----------------------------------------------------------- error state
NoError == [kind |-> "null", message |-> "null"]
InvalidFileType == [kind |-> "invalidFileType", message |-> "null"]
SelectFileFirst == [kind |-> "selectFileFirst", message |-> "null"]
NotConfigured   == [kind |-> "notConfigured", message |-> "null"]
\* The template string "Analysis failed: " + errorMessage of the catch block
AnalysisFailed(err) ==
  [kind |-> "analysisFailed",
   message |-> IF err.isError THEN err.message ELSE "unknown"]

TypeError   == [isError |-> TRUE, message |-> "TypeError"]
SyntaxError == [isError |-> TRUE, message |-> "SyntaxError"]

\* ------------------------------------------------------------- rendering
truthy(k) == k \notin {"absent", "null", "false", "str0"}
isArray(k) == k \in {"arr0", "arr1"}

\* {xs.length > 0 ? <ul>{xs.map(..)}</ul> : <p>placeholder</p>} throws when
\* xs is undefined or null (.length) or a non-empty string (.map).
lengthMapThrows(k) == k \in {"absent", "null", "str1"}
\* <ul>{xs.map(..)}</ul> throws unless xs is an array.
mapThrows(k) == ~isArray(k)

ShapeA == variant = "insights"

ResultTruthy == analysisResult.t # "null"

\* Variation of ShowsAnalysis: the existence check of analysis left out.
ShowsAnalysisUnchecked ==
  /\ ResultTruthy
  /\ truthy(analysisResult.isMarketingData)

ShowsAnalysis ==
  /\ ResultTruthy
  /\ truthy(analysisResult.isMarketingData)
  /\ truthy(analysisResult.analysis.k)

\* The result panels are rendered (or their rendering is attempted).
PanelsBranch == ResultTruthy /\ (ShapeA \/ ShowsAnalysis)

\* The information banner of the shape-B variants.
InfoBanner ==
  /\ ResultTruthy /\ ~ShapeA /\ ~ShowsAnalysis
  /\ truthy(analysisResult.reasoning)

RenderThrows ==
  /\ PanelsBranch
  /\ IF ShapeA
     THEN \/ lengthMapThrows(analysisResult.insights)
          \/ lengthMapThrows(analysisResult.recommendations)
     ELSE \/ mapThrows(analysisResult.analysis.conclusions)
          \/ mapThrows(analysisResult.analysis.suggestions)
          \/ mapThrows(analysisResult.analysis.risks)
          \/ mapThrows(analysisResult.analysis.criticalErrors)

\* The component is displayed: the last render did not throw (React unmounts
\* the root when a render throws and no error boundary exists).
Mounted == ~RenderThrows

Spinner == Mounted /\ isLoading
ErrorBanner == Mounted /\ error # NoError
InfoShown == Mounted /\ InfoBanner
PanelsShown == Mounted /\ PanelsBranch

\* Variation of InputEnabled: the file input not disabled while loading.
InputEnabledWhileLoading == Mounted

\* disabled={isLoading} of the file input
InputEnabled == Mounted /\ ~isLoading
\* Variation of ButtonEnabled: the button not disabled while loading.
ButtonEnabledWhileLoading == Mounted /\ selectedFile # NoFile /\ apiKey

\* disabled={!selectedFile || isLoading || !process.env.API_KEY} of the button
ButtonEnabled == Mounted /\ selectedFile # NoFile /\ ~isLoading /\ apiKey

\* ------------------------------------------------------------------ Init
Init ==
  /\ variant \in Variants
  /\ apiKey \in BOOLEAN
  /\ inputFile = NoFile
  /\ selectedFile = NoFile
  /\ analysisResult = Null
  /\ isLoading = FALSE
  /\ error = NoError
  /\ pending = [read |-> 0, call |-> 0, hung |-> 0]
  /\ attempts = 0
  /\ remoteCalls = 0
  /\ lastEvent = "init"

\* -------------------------------------------------------- handleFileChange
\* Variation of AcceptFile: the error of an earlier rejection is kept.
AcceptFileKeepingError(f) ==
  /\ selectedFile' = f
  /\ analysisResult' = Null
  /\ UNCHANGED error
  /\ lastEvent' = "fileAccepted"

AcceptFile(f) ==
  /\ selectedFile' = f
  /\ analysisResult' = Null
  /\ error' = NoError
  /\ lastEvent' = "fileAccepted"

RejectFile(f) ==
  /\ selectedFile' = NoFile
  /\ error' = InvalidFileType
  /\ UNCHANGED analysisResult
  /\ lastEvent' = "fileRejected"

\* The change event of the file input; f = NoFile is an empty file list.
handleFileChange(f) ==
  /\ inputFile' = f
  /\ IF f = NoFile
     THEN /\ UNCHANGED <<selectedFile, analysisResult, error>>
          /\ lastEvent' = "fileNone"
     ELSE IF IsAllowedFile(f) THEN AcceptFile(f) ELSE RejectFile(f)
  /\ UNCHANGED <<variant, apiKey, isLoading, pending, attempts, remoteCalls>>

\* ----------------------------------------------------------- handleAnalyze
\* pending counts the promises handleAnalyze invocations are suspended on:
\*   read - FileReader reads awaited by fileToGenerativePart
\*   call - generateContent requests awaited
\*   hung - awaits whose promise can no longer be settled
NoPending == [read |-> 0, call |-> 0, hung |-> 0]
Outstanding == pending.read + pending.call + pending.hung

\* Variation of FirstStage: every variant reads the file first.
FirstStageAlwaysRead == "read"

\* The first stage of an attempt: the content variant first awaits the
\* FileReader, the others call generateContent at once.
FirstStage == IF variant = "content" THEN "read" ELSE "call"

StartAttempt ==
  /\ isLoading' = TRUE
  /\ error' = NoError
  /\ analysisResult' = Null
  /\ pending' = [pending EXCEPT ![FirstStage] = @ + 1]
  /\ attempts' = attempts + 1
  /\ remoteCalls' = IF FirstStage = "call" THEN remoteCalls + 1 ELSE remoteCalls
  /\ lastEvent' = "analyzeStarted"

\* Variation of handleAnalyze: the guards also drop the stored result.
handleAnalyzeClearingResult ==
  /\ IF selectedFile = NoFile
     THEN /\ error' = SelectFileFirst
          /\ analysisResult' = Null
          /\ lastEvent' = "analyzeNoFile"
          /\ UNCHANGED <<isLoading, pending, attempts, remoteCalls>>
     ELSE IF ~apiKey
     THEN /\ error' = NotConfigured
          /\ analysisResult' = Null
          /\ lastEvent' = "analyzeNoKey"
          /\ UNCHANGED <<isLoading, pending, attempts, remoteCalls>>
     ELSE /\ attempts < MaxAttempts
          /\ StartAttempt
  /\ UNCHANGED <<variant, apiKey, inputFile, selectedFile>>

\* Variation of handleAnalyze: the credential is checked before the file.
handleAnalyzeKeyFirst ==
  /\ IF ~apiKey
     THEN /\ error' = NotConfigured
          /\ lastEvent' = "analyzeNoKey"
          /\ UNCHANGED <<analysisResult, isLoading, pending, attempts, remoteCalls>>
     ELSE IF selectedFile = NoFile
     THEN /\ error' = SelectFileFirst
          /\ lastEvent' = "analyzeNoFile"
          /\ UNCHANGED <<analysisResult, isLoading, pending, attempts, remoteCalls>>
     ELSE /\ attempts < MaxAttempts
          /\ StartAttempt
  /\ UNCHANGED <<variant, apiKey, inputFile, selectedFile>>

\* Variation of handleAnalyze: the credential guard sets its error but does
\* not return.
handleAnalyzeNoReturn ==
  /\ IF selectedFile = NoFile
     THEN /\ error' = SelectFileFirst
          /\ lastEvent' = "analyzeNoFile"
          /\ UNCHANGED <<analysisResult, isLoading, pending, attempts, remoteCalls>>
     ELSE /\ attempts < MaxAttempts
          /\ isLoading' = TRUE
          /\ error' = IF apiKey THEN NoError ELSE NotConfigured
          /\ analysisResult' = Null
          /\ pending' = [pending EXCEPT ![FirstStage] = @ + 1]
          /\ attempts' = attempts + 1
          /\ remoteCalls' = IF FirstStage = "call" THEN remoteCalls + 1 ELSE remoteCalls
          /\ lastEvent' = IF apiKey THEN "analyzeStarted" ELSE "analyzeNoKey"
  /\ UNCHANGED <<variant, apiKey, inputFile, selectedFile>>

handleAnalyze ==
  /\ IF selectedFile = NoFile
     THEN /\ error' = SelectFileFirst
          /\ lastEvent' = "analyzeNoFile"
          /\ UNCHANGED <<analysisResult, isLoading, pending, attempts, remoteCalls>>
     ELSE IF ~apiKey
     THEN /\ error' = NotConfigured
          /\ lastEvent' = "analyzeNoKey"
          /\ UNCHANGED <<analysisResult, isLoading, pending, attempts, remoteCalls>>
     ELSE /\ attempts < MaxAttempts
          /\ StartAttempt
  /\ UNCHANGED <<variant, apiKey, inputFile, selectedFile>>

\* reader.onloadend with a data URL: the promise resolves and generateContent
\* is called.
ReadLoaded ==
  /\ pending.read > 0
  /\ pending' = [pending EXCEPT !.read = @ - 1, !.call = @ + 1]
  /\ remoteCalls' = remoteCalls + 1
  /\ lastEvent' = "readLoaded"
  /\ UNCHANGED <<variant, apiKey, inputFile, selectedFile, analysisResult,
                 isLoading, error, attempts>>

\* reader.onloadend after a failed read: reader.result is null, so
\* (reader.result as string).split throws inside the event callback, resolve
\* is never called and the await of handleAnalyze never resumes.
ReadFailed ==
  /\ pending.read > 0
  /\ pending' = [pending EXCEPT !.read = @ - 1, !.hung = @ + 1]
  /\ lastEvent' = "readFailed"
  /\ UNCHANGED <<variant, apiKey, inputFile, selectedFile, analysisResult,
                 isLoading, error, attempts, remoteCalls>>

\* Variation of StoreResult: the parsed value is not stored.
StoreResultDropped(value) ==
  /\ UNCHANGED analysisResult
  /\ UNCHANGED error

\* try { ... setAnalysisResult(parsedData) } of handleAnalyze
StoreResult(value) ==
  /\ analysisResult' = value
  /\ UNCHANGED error

\* Variation of CatchError: the failure is swallowed.
CatchErrorSwallowed(err) ==
  /\ UNCHANGED error
  /\ analysisResult' = Null

\* catch (err) { setError(...); setAnalysisResult(null) }
CatchError(err) ==
  /\ error' = AnalysisFailed(err)
  /\ analysisResult' = Null

\* The continuation of handleAnalyze after generateContent resolved with r.
ProcessResponse(r) ==
  IF ~r.hasText
  THEN CatchError(TypeError)
  ELSE LET jsonStr == trim(r.text)
           parsed == JSONparse(jsonStr)
       IN IF parsed.ok THEN StoreResult(parsed.value) ELSE CatchError(SyntaxError)

\* Variation of Finally: the loading flag is not reset.
FinallyKeepsLoading ==
  /\ UNCHANGED isLoading
  /\ pending' = [pending EXCEPT !.call = @ - 1]

\* finally { setIsLoading(false) }: the attempt is over.
Finally ==
  /\ isLoading' = FALSE
  /\ pending' = [pending EXCEPT !.call = @ - 1]

CallResolved(r) ==
  /\ pending.call > 0
  /\ ProcessResponse(r)
  /\ Finally
  /\ lastEvent' = "callResolved"
  /\ UNCHANGED <<variant, apiKey, inputFile, selectedFile, attempts, remoteCalls>>

\* Variation of CallRejected: a failed request is issued again.
CallRejectedRetrying(err) ==
  /\ pending.call > 0
  /\ remoteCalls < MaxAttempts + 1
  /\ remoteCalls' = remoteCalls + 1
  /\ lastEvent' = "callRejected"
  /\ UNCHANGED <<variant, apiKey, inputFile, selectedFile, analysisResult,
                 isLoading, error, pending, attempts>>

CallRejected(err) ==
  /\ pending.call > 0
  /\ CatchError(err)
  /\ Finally
  /\ lastEvent' = "callRejected"
  /\ UNCHANGED <<variant, apiKey, inputFile, selectedFile, attempts, remoteCalls>>

\* --------------------------------------------------------- specifications
\* The user's events, possible only on enabled controls.
SelectFile == \E f \in Files \cup {NoFile} : InputEnabled /\ handleFileChange(f)
ClickAnalyze == ButtonEnabled /\ handleAnalyze
FileRead == ReadLoaded \/ ReadFailed
Resolve == \E r \in Responses : CallResolved(r)
Reject == \E err \in Rejections : CallRejected(err)

Next == SelectFile \/ ClickAnalyze \/ FileRead \/ Resolve \/ Reject

Spec == Init /\ [][Next]_vars

\* The same, with every started file read and every issued request eventually
\* finishing, successfully or not.
SpecFair == Spec /\ WF_vars(FileRead) /\ WF_vars(Resolve \/ Reject)

\* The handlers invoked directly, whatever the disabled attributes say
\* (the handlers' own contract).
InvokeFileChange == \E f \in Files \cup {NoFile} : handleFileChange(f)
InvokeAnalyze == handleAnalyze

NextDirect == InvokeFileChange \/ InvokeAnalyze \/ FileRead \/ Resolve \/ Reject

SpecDirect == Init /\ [][NextDirect]_vars

\* ------------------------------------------------------------ properties
FileEvents == {"fileAccepted", "fileRejected"}
AnalyzeEvents == {"analyzeNoFile", "analyzeNoKey", "analyzeStarted"}

\* The part of a file name after its last dot (<<>> when it has no dot).
LastDot(name) ==
  IF \E i \in DOMAIN name : name[i] = "."
  THEN CHOOSE i \in DOMAIN name :
         name[i] = "." /\ \A j \in DOMAIN name : j > i => name[j] # "."
  ELSE 0
Extension(name) ==
  IF LastDot(name) = 0 THEN <<>> ELSE SubSeq(name, LastDot(name) + 1, Len(name))

HasListedType(f) ==
  \/ FileTable[f].type = "application/pdf"
  \/ FileTable[f].type = "text/csv"
  \/ FileTable[f].type = "application/vnd.ms-excel"
  \/ FileTable[f].type =
       "application/vnd.openxmlformats-officedocument.spreadsheetml.sheet"
HasListedExtension(f) ==
  Extension(FileTable[f].name) \in
    {<<"c", "s", "v">>, <<"x", "l", "s">>, <<"x", "l", "s", "x">>}
IsPdfByNameOnly(f) ==
  Extension(FileTable[f].name) = <<"p", "d", "f">> /\ ~HasListedType(f)

\* C1: after handleFileChange received a file with a MIME type outside the
\* allow-list and a name not ending in .csv/.xls/.xlsx, selectedFile is null,
\* the error is the invalid-file-type error and analysisResult is null.
C1_RejectionDropsResult ==
  (lastEvent \in FileEvents /\ ~HasListedType(inputFile)
     /\ ~HasListedExtension(inputFile))
  => (selectedFile = NoFile /\ error = InvalidFileType /\ analysisResult = Null)

\* C2: a handleAnalyze step taken while selectedFile is null sets the
\* select-a-file-first error, starts no file read and issues no remote call.
C2_NoFileNoCall ==
  [][(selectedFile = NoFile /\ lastEvent' \in AnalyzeEvents)
     => (error' = SelectFileFirst /\ pending' = pending
         /\ remoteCalls' = remoteCalls)]_vars

C2_Witness ==
  /\ lastEvent = "analyzeNoFile" /\ error = SelectFileFirst
  /\ isLoading /\ apiKey /\ Outstanding > 0

\* C3 (as stated): a handleAnalyze step taken while no credential is
\* configured sets the not-configured error and issues no remote call, also
\* when no file is selected.
C3_NoKeyAlwaysNotConfigured ==
  [][(~apiKey /\ lastEvent' \in AnalyzeEvents)
     => (error' = NotConfigured /\ pending' = pending
         /\ remoteCalls' = remoteCalls)]_vars

\* C3 (amended): a handleAnalyze step taken while no credential is configured
\* issues no remote call and starts no read; it sets the not-configured error
\* when a file is selected, and the select-a-file-first error when none is.
C3_NoKeyNoCall ==
  [][(~apiKey /\ lastEvent' \in AnalyzeEvents)
     => /\ pending' = pending /\ remoteCalls' = remoteCalls
        /\ error' = IF selectedFile = NoFile THEN SelectFileFirst
                    ELSE NotConfigured]_vars

C3_Witness ==
  ~apiKey /\ selectedFile # NoFile /\ lastEvent = "analyzeNoKey"
  /\ error = NotConfigured

\* C4: at most one asynchronous operation of an analysis attempt is
\* outstanding, and while one is, isLoading is true and the trigger button is
\* disabled.
C4_SingleOutstanding ==
  /\ Outstanding <= 1
  /\ (Outstanding > 0 => isLoading)
  /\ (isLoading => ~ButtonEnabled)

C4_Witness ==
  lastEvent = "analyzeStarted" /\ attempts = 2 /\ Outstanding = 1 /\ isLoading

\* C5: at most one of spinner, error banner, information banner and result
\* panels is displayed.
ShownCount ==
  (IF Spinner THEN 1 ELSE 0) + (IF ErrorBanner THEN 1 ELSE 0)
  + (IF InfoShown THEN 1 ELSE 0) + (IF PanelsShown THEN 1 ELSE 0)

C5_ExclusiveUI == ShownCount <= 1

\* C6: handleFileChange accepts a file exactly when its MIME type is one of
\* the four listed or the extension of its name is csv, xls or xlsx; a file
\* named .pdf with a MIME type outside the list is rejected.
C6_AcceptIffListed ==
  lastEvent \in FileEvents
  => /\ (lastEvent = "fileAccepted")
          <=> (HasListedType(inputFile) \/ HasListedExtension(inputFile))
     /\ (lastEvent = "fileAccepted" => selectedFile = inputFile)
     /\ (lastEvent = "fileRejected" => selectedFile = NoFile)
     /\ (IsPdfByNameOnly(inputFile) => lastEvent = "fileRejected")

C6_Witness ==
  lastEvent = "fileRejected" /\ IsPdfByNameOnly(inputFile)
  /\ selectedFile = NoFile

\* C7: a handleFileChange step that accepts a file leaves selectedFile equal
\* to that file, analysisResult null and error null, and does not change
\* isLoading.
C7_AcceptFrame ==
  [][lastEvent' = "fileAccepted"
     => /\ selectedFile' = inputFile' /\ inputFile' # NoFile
        /\ analysisResult' = Null /\ error' = NoError
        /\ isLoading' = isLoading]_vars

C7_Witness ==
  lastEvent = "fileAccepted" /\ isLoading /\ selectedFile = inputFile
  /\ selectedFile # NoFile /\ error = NoError /\ attempts > 0

\* C8: a response made of a JSON payload inside a markdown fence (tagged json
\* or not) leaves the analysisResult that the payload alone leaves, and no
\* error.
C8_FencedAsUnfenced ==
  [][\A d \in DocTokens : \A fenced \in {FencedJson(d), FencedPlain(d)} :
       CallResolved([hasText |-> TRUE, text |-> fenced])
       => (analysisResult' = Docs[d] /\ error' = NoError)]_vars

\* C9: every stored analysisResult has its declared array fields as arrays:
\* insights and recommendations in the shape-A variant, the four fields of a
\* present analysis in the shape-B variants.
DeclaredArraysAreArrays ==
  IF ShapeA
  THEN isArray(analysisResult.insights) /\ isArray(analysisResult.recommendations)
  ELSE analysisResult.analysis.k # "absent"
       => /\ isArray(analysisResult.analysis.conclusions)
          /\ isArray(analysisResult.analysis.suggestions)
          /\ isArray(analysisResult.analysis.risks)
          /\ isArray(analysisResult.analysis.criticalErrors)

C9_StoredArraysAreArrays == ResultTruthy => DeclaredArraysAreArrays

\* A stored shape-B result that violates the analysis/reasoning pairing.
ViolatesPairing ==
  /\ ~ShapeA /\ ResultTruthy
  /\ \/ analysisResult.isMarketingData = "true"
        /\ analysisResult.analysis.k = "absent"
     \/ analysisResult.isMarketingData = "false"
        /\ analysisResult.reasoning = "absent"

\* C10 (as stated): for a stored shape-B result that violates the pairing,
\* neither result panels nor the information banner nor an error banner is
\* displayed.
C10_ViolationRendersNothing ==
  ViolatesPairing => (~PanelsShown /\ ~InfoShown /\ ~ErrorBanner)

\* C10 (amended): for a stored shape-B result that violates the pairing, no
\* result panels are displayed, the information banner is displayed exactly
\* when reasoning is present, and no error banner is displayed when the
\* attempt stores the result.
C10_ViolationRendersNoPanels ==
  ViolatesPairing
  => /\ ~PanelsShown
     /\ (InfoShown <=> analysisResult.reasoning = "str1")
     /\ (lastEvent = "callResolved" => ~ErrorBanner)

C10_Witness ==
  /\ ViolatesPairing /\ lastEvent = "callResolved"
  /\ analysisResult.isMarketingData = "true" /\ analysisResult.reasoning = "str1"
  /\ InfoShown

\* C11: in the content variant, when the FileReader finishes without a
\* result, the attempt ends with an error set and isLoading false.
C11_ReadFailureCaught ==
  lastEvent = "readFailed" => (error # NoError /\ ~isLoading /\ InputEnabled)

\* A response text that is not a JSON document with optional white space
\* around it.
NotJson(r) ==
  r.hasText /\ ~\E d \in DocTokens : r.text \in {Plain(d), Padded(d)}

\* C12: a step in which the remote call is rejected, or resolves with a text
\* that does not parse as JSON, ends in the analysis-failed error carrying the
\* failure's message, with analysisResult null, isLoading false and
\* selectedFile unchanged.
C12_FailureCaught ==
  [][/\ \A err \in Rejections :
          CallRejected(err)
          => /\ error'.kind = "analysisFailed"
             /\ (err.isError => error'.message = err.message)
             /\ analysisResult' = Null /\ ~isLoading'
             /\ selectedFile' = selectedFile
     /\ \A r \in Responses :
          (NotJson(r) /\ CallResolved(r))
          => /\ error'.kind = "analysisFailed"
             /\ error'.message = "SyntaxError"
             /\ analysisResult' = Null /\ ~isLoading'
             /\ selectedFile' = selectedFile]_vars

C12_Witness ==
  /\ lastEvent = "callResolved" /\ error.kind = "analysisFailed"
  /\ error.message = "SyntaxError"
  /\ analysisResult = Null /\ ~isLoading /\ selectedFile # NoFile

\* C13: while no credential is configured, the trigger button is disabled and
\* the error is the not-configured message.
C13_NoKeyBanner ==
  ~apiKey => (~ButtonEnabled /\ error = NotConfigured /\ ErrorBanner)

\* An attempt has just ended in an error.
FailedAttempt ==
  lastEvent \in {"callRejected", "callResolved"} /\ error.kind = "analysisFailed"

\* C14: after an attempt that ended in an error, isLoading is false, the file
\* is still selected and the file input and the trigger button are enabled;
\* an attempt started while that error is shown clears it.
C14_RetryAfterError ==
  /\ [](FailedAttempt
        => /\ ~isLoading /\ selectedFile # NoFile /\ apiKey
           /\ ButtonEnabled /\ InputEnabled)
  /\ [][(error.kind = "analysisFailed" /\ lastEvent' = "analyzeStarted")
        => (error' = NoError /\ isLoading' /\ attempts' = attempts + 1
            /\ selectedFile' = selectedFile)]_vars

C14_Witness ==
  FailedAttempt /\ lastEvent = "callRejected" /\ ButtonEnabled /\ attempts = 1

\* C15: rendering never throws, whatever the remote model answered.
C15_RenderNeverThrows == ~RenderThrows

\* C16: an attempt that set isLoading eventually ends with isLoading false.
C16_LoadingEnds == isLoading ~> ~isLoading

\* C17 (as stated): once no file read is in progress, as many requests have
\* been issued as invocations of handleAnalyze passed the guards.
C17_OneRequestPerAttempt == pending.read = 0 => remoteCalls = attempts

\* C17 (amended): an attempt issues no request before its file read has
\* succeeded and exactly one afterwards: the requests issued are the attempts
\* started, less those whose read is in progress or has failed.
C17_OneRequestPerReadAttempt ==
  /\ remoteCalls = attempts - pending.read - pending.hung
  /\ (variant # "content" => remoteCalls = attempts)

C17_Witness ==
  variant = "content" /\ lastEvent = "readFailed" /\ attempts = 1
  /\ remoteCalls = 0

\* C18 (as stated): handleAnalyze is never suspended on anything but the
\* generateContent call.
C18_CallIsOnlyWait == pending.read = 0 /\ pending.hung = 0

\* C18 (amended): in the variants that send the file name only, the
\* generateContent call is the only wait of handleAnalyze; in the content
\* variant an attempt waits first for the file read and then for the call.
C18_WaitsPerVariant ==
  /\ variant # "content" => pending.read = 0 /\ pending.hung = 0
  /\ lastEvent = "analyzeStarted"
       => IF variant = "content"
          THEN pending.read = 1 /\ pending.call = 0
          ELSE pending.read = 0 /\ pending.call = 1
  /\ lastEvent = "readLoaded"
       => variant = "content" /\ pending.read = 0 /\ pending.call = 1

C18_Witness ==
  variant = "content" /\ lastEvent = "readLoaded" /\ pending.call = 1
  /\ isLoading

\* C19: while isLoading is true, error and analysisResult are null, a file is
\* selected and the selection does not change.
C19_LoadingState ==
  /\ [](isLoading
        => /\ error = NoError /\ analysisResult = Null
           /\ selectedFile # NoFile /\ ~InputEnabled)
  /\ [][(isLoading /\ isLoading') => selectedFile' = selectedFile]_vars

C19_Witness ==
  isLoading /\ lastEvent = "readLoaded" /\ selectedFile # NoFile
  /\ error = NoError /\ analysisResult = Null

\* C20: a handleAnalyze step that returns from one of its two guards changes
\* error only.
C20_GuardFrame ==
  [][lastEvent' \in {"analyzeNoFile", "analyzeNoKey"}
     => /\ UNCHANGED <<selectedFile, analysisResult, isLoading>>
        /\ UNCHANGED <<pending, attempts, remoteCalls>>
        /\ error' \in {SelectFileFirst, NotConfigured}]_vars

C20_Witness ==
  /\ lastEvent = "analyzeNoFile" /\ error = SelectFileFirst
  /\ ResultTruthy /\ selectedFile = NoFile

\* The events that are steps of handleAnalyze: its invocation and the
\* continuations after its awaits.
HandleAnalyzeEvents ==
  AnalyzeEvents \cup {"readLoaded", "readFailed", "callResolved", "callRejected"}

====
